---- MODULE Spec2Model ----
(***************************************************************************)
(* Model of the semantic chunking engine of local_translation:             *)
(*   - the abbreviation guard (protect_abbreviations / restore),           *)
(*   - the sentence segmenter (split_sentences),                           *)
(*   - the topic oracle (is_topic_shift / is_topic_boundary),              *)
(*   - the chunk assemblers (sentence_based_chunk, progressive_chunk V2).  *)
(* A text is a sequence of one-character strings.                          *)
(***************************************************************************)
EXTENDS Integers, Sequences, FiniteSets, TLC

(***************************************************************************)
(* Character classes used by the regular expressions and by str.strip().   *)
(***************************************************************************)
Upper == {"A", "B", "C", "D", "E", "F", "G", "H", "I", "J", "K", "L", "M",
          "N", "O", "P", "Q", "R", "S", "T", "U", "V", "W", "X", "Y", "Z"}

Lower == {"a", "b", "c", "d", "e", "f", "g", "h", "i", "j", "k", "l", "m",
          "n", "o", "p", "q", "r", "s", "t", "u", "v", "w", "x", "y", "z"}

Digit == {"0", "1", "2", "3", "4", "5", "6", "7", "8", "9"}

\* \w of the re module, restricted to the characters of the model
WordChar == Upper \cup Lower \cup Digit \cup {"_"}

\* what str.strip(), str.rstrip() and \s remove
Whitespace == {" ", "\n", "\t", "\r", "\f"}

\* the text '__PROTECTED_DOT__' that stands for a protected period
Sentinel == <<"_", "_", "P", "R", "O", "T", "E", "C", "T", "E", "D", "_",
              "D", "O", "T", "_", "_">>

(***************************************************************************)
(* String helpers (Python str methods).                                    *)
(***************************************************************************)
\* s.startswith(p, i-1)
StartsAt(s, p, i) ==
    /\ i + Len(p) - 1 <= Len(s)
    /\ SubSeq(s, i, i + Len(p) - 1) = p

\* the set's least element
Least(S) == CHOOSE x \in S : \A y \in S : x <= y

\* the set's greatest element
Greatest(S) == CHOOSE x \in S : \A y \in S : x >= y

RECURSIVE Concat(_)
\* ''.join(parts), joined by halves
Concat(parts) ==
    IF parts = <<>> THEN <<>>
    ELSE IF Len(parts) = 1 THEN parts[1]
         ELSE Concat(SubSeq(parts, 1, Len(parts) \div 2))
              \o Concat(SubSeq(parts, Len(parts) \div 2 + 1, Len(parts)))

RECURSIVE ReplaceFrom(_, _, _, _)
\* str.replace scanning from position i: leftmost, non-overlapping occurrences
ReplaceFrom(s, old, new, i) ==
    LET hits == {k \in i..Len(s) : s[k] = old[1] /\ StartsAt(s, old, k)}
    IN  IF hits = {} THEN SubSeq(s, i, Len(s))
        ELSE SubSeq(s, i, Least(hits) - 1) \o new
             \o ReplaceFrom(s, old, new, Least(hits) + Len(old))

\* s.replace(old, new); an empty old only occurs with new = old here
Replace(s, old, new) ==
    IF old = <<>> THEN s ELSE ReplaceFrom(s, old, new, 1)

\* s.lstrip()
LStrip(s) ==
    IF \A i \in 1..Len(s) : s[i] \in Whitespace THEN <<>>
    ELSE SubSeq(s, CHOOSE i \in 1..Len(s) :
                      /\ s[i] \notin Whitespace
                      /\ \A j \in 1..(i - 1) : s[j] \in Whitespace,
                Len(s))

\* s.rstrip()
RStrip(s) ==
    IF \A i \in 1..Len(s) : s[i] \in Whitespace THEN <<>>
    ELSE SubSeq(s, 1, CHOOSE i \in 1..Len(s) :
                         /\ s[i] \notin Whitespace
                         /\ \A j \in (i + 1)..Len(s) : s[j] \in Whitespace)

\* s.strip()
Strip(s) == LStrip(RStrip(s))

\* s.endswith(p)
EndsWith(s, p) ==
    /\ Len(p) <= Len(s)
    /\ SubSeq(s, Len(s) - Len(p) + 1, Len(s)) = p

(***************************************************************************)
(* Abbreviation guard.                                                     *)
(***************************************************************************)
\* abbr.replace('.', '__PROTECTED_DOT__')
SafeAbbr(abbr) == Replace(abbr, <<".">>, Sentinel)

RECURSIVE ProtectListed(_, _)
\* the loop over the abbreviations, longest first (abbrs is the sorted list)
ProtectListed(text, abbrs) ==
    IF abbrs = <<>> THEN text
    ELSE ProtectListed(Replace(text, Head(abbrs), SafeAbbr(Head(abbrs))),
                       Tail(abbrs))

\* first index of the run of word characters that ends at index e
WordStart(text, e) ==
    LET stops == {k \in 1..(e - 1) : text[k] \notin WordChar}
    IN  IF stops = {} THEN 1 ELSE Greatest(stops) + 1

\* text[s..e] matches [A-Z] | [A-Z][a-z]+ | [a-z]+
IsPatternToken(text, s, e) ==
    \/ s = e /\ text[s] \in Upper
    \/ s < e /\ text[s] \in Upper /\ \A k \in (s + 1)..e : text[k] \in Lower
    \/ \A k \in s..e : text[k] \in Lower

\* the period at index d ends a match of \b([A-Z]\.|[A-Z][a-z]+\.|[a-z]+\.)
PatternDotAt(text, d) ==
    /\ text[d] = "."
    /\ d > 1
    /\ text[d - 1] \in WordChar
    /\ IsPatternToken(text, WordStart(text, d - 1), d - 1)

\* re.sub of the three fallback patterns
ProtectPattern(text) ==
    Concat([d \in 1..Len(text) |->
              IF PatternDotAt(text, d) THEN Sentinel ELSE <<text[d]>>])

\* protect_abbreviations, abbrs being sorted(abbreviation_set, key=len, reverse=True)
protect_abbreviations(text, abbrs) ==
    ProtectPattern(ProtectListed(text, abbrs))

\* restore_abbreviations
restore_abbreviations(text) == Replace(text, Sentinel, <<".">>)

\* the ways open() and yaml.safe_load() of the vocabulary file can fail, and
\* a loaded document that has no values(): a list, a scalar, None
LoadFailures == {"missing", "unreadable", "invalid_yaml", "not_mapping"}

\* what abbr_set.update(v) adds for one value of the mapping: the items of a
\* list, the characters of a string
UpdateWith(value) ==
    IF value.kind = "list" THEN value.items
    ELSE UNION {{<<str[i]>> : i \in 1..Len(str)} : str \in value.items}

\* load_abbreviations: the set built from the mapping's values, or the empty
\* set when anything raised (update of a value that is not iterable included)
load_abbreviations(file) ==
    IF file.kind \in LoadFailures THEN {}
    ELSE IF \E k \in 1..Len(file.values) : file.values[k].kind = "number"
         THEN {}
         ELSE UNION {UpdateWith(file.values[k]) : k \in 1..Len(file.values)}

\* token matches ^[A-Z]\.$ or ^[A-Z][a-z]+\.$ or ^[a-z]+\.$, where $ also
\* matches before a final line break
MatchesPattern(token) ==
    LET t == IF token # <<>> /\ token[Len(token)] = "\n"
             THEN SubSeq(token, 1, Len(token) - 1) ELSE token
    IN  /\ Len(t) >= 2
        /\ t[Len(t)] = "."
        /\ IsPatternToken(t, 1, Len(t) - 1)

\* is_abbreviation
is_abbreviation(token, abbreviation_set) ==
    token \in abbreviation_set \/ MatchesPattern(token)

(***************************************************************************)
(* Sentence segmenter.  A sentence is a pair <<text, trailing newlines>>.  *)
(***************************************************************************)
\* the characters [.!?。！？] of the split pattern; the three full-width
\* ones are written KUTEN, ZEN_EXCL and ZEN_QUES
Terminator == {".", "!", "?", "KUTEN", "ZEN_EXCL", "ZEN_QUES"}

\* [0-9A-Za-z] of the negative lookahead
AlnumAscii == Digit \cup Upper \cup Lower

\* the short fragment threshold of split_sentences
ShortSentenceLen == 20

\* the length up to which a fragment ending in a period is held back
ShortAbbrLen == 3

\* the heading tokens that get an extra line break
Headings == {<<"P", "h", "o", "n", "e", "s">>,
             <<"U", "p", "d", "a", "t", "e", "s">>,
             <<"S", "a", "m", "s", "u", "n", "g">>,
             <<"O", "n", "e", " ", "U", "I">>}

RECURSIVE SplitLinesFrom(_, _)
\* the lines of s from index start on
SplitLinesFrom(s, start) ==
    LET breaks == {k \in start..Len(s) : s[k] = "\n"}
    IN  IF breaks = {} THEN <<SubSeq(s, start, Len(s))>>
        ELSE <<SubSeq(s, start, Least(breaks) - 1)>>
             \o SplitLinesFrom(s, Least(breaks) + 1)

\* s.split('\n')
SplitLines(s) == SplitLinesFrom(s, 1)

\* [.!?。！？](?![0-9A-Za-z]) matches at index t
TerminatorAt(s, t) ==
    /\ s[t] \in Terminator
    /\ (t = Len(s) \/ s[t + 1] \notin AlnumAscii)

\* index after the whitespace run that starts at i (the \s* of the pattern)
SkipSpace(s, i) ==
    LET stops == {k \in i..Len(s) : s[k] \notin Whitespace}
    IN  IF stops # {} THEN Least(stops)
        ELSE IF i > Len(s) THEN i ELSE Len(s) + 1

RECURSIVE ReSplitFrom(_, _)
\* the pieces of s from index start on: content, terminator, content, ...
ReSplitFrom(s, start) ==
    LET hits == {k \in start..Len(s) : TerminatorAt(s, k)}
    IN  IF hits = {} THEN <<SubSeq(s, start, Len(s))>>
        ELSE <<SubSeq(s, start, Least(hits) - 1), <<s[Least(hits)]>>>>
             \o ReSplitFrom(s, SkipSpace(s, Least(hits) + 1))

\* re.split(r'([.!?。！？](?![0-9A-Za-z]))\s*', s)
ReSplit(s) == ReSplitFrom(s, 1)

\* sentences_with_newlines[-1] = pair
SetLast(list, pair) == [list EXCEPT ![Len(list)] = pair]

\* lines 166-177: the text the fragment at index j adds to current_sentence
FragmentText(pieces, j) ==
    IF j + 1 <= Len(pieces)
    THEN IF Strip(pieces[j]) # <<>> THEN pieces[j] \o pieces[j + 1]
                                    ELSE pieces[j + 1]
    ELSE pieces[j]

\* lines 190-197: a fragment becomes a sentence of its own
EmitSentence(list, cur) ==
    LET bumped ==
            IF Strip(cur) \in Headings /\ list # <<>>
               /\ ~EndsWith(list[Len(list)][2], <<"\n", "\n">>)
            THEN SetLast(list, <<list[Len(list)][1],
                                 list[Len(list)][2] \o <<"\n">>>>)
            ELSE list
    IN  Append(bumped, <<Strip(cur), <<>>>>)

RECURSIVE FragmentLoop(_, _, _, _)
\* lines 165-198: the loop over the fragments of one line; pieces is 1-based,
\* j is the index of the content piece, cur is current_sentence
FragmentLoop(pieces, j, list, cur) ==
    IF j > Len(pieces) THEN list
    ELSE
      LET cs == cur \o FragmentText(pieces, j)
          st == Strip(cs)
      IN  IF list # <<>> /\ Len(st) < ShortSentenceLen
          THEN IF EndsWith(st, <<".">>) /\ Len(st) <= ShortAbbrLen
               THEN FragmentLoop(pieces, j + 2, list, cs)
               ELSE FragmentLoop(pieces, j + 2,
                        SetLast(list, <<list[Len(list)][1] \o cs,
                                        list[Len(list)][2]>>),
                        cs)
          ELSE IF st # <<>>
               THEN FragmentLoop(pieces, j + 2, EmitSentence(list, cs), <<>>)
               ELSE FragmentLoop(pieces, j + 2, list, <<>>)

\* lines 200-207: the line break appended to the last sentence of a line
CloseLine(list) ==
    IF list = <<>> THEN list
    ELSE IF list[Len(list)][1] \in Headings
         THEN SetLast(list, <<list[Len(list)][1],
                              list[Len(list)][2] \o <<"\n", "\n">>>>)
         ELSE SetLast(list, <<list[Len(list)][1],
                              list[Len(list)][2] \o <<"\n">>>>)

RECURSIVE LineLoop(_, _, _)
\* lines 154-207: the loop over the lines of the protected text
LineLoop(paragraphs, i, list) ==
    IF i > Len(paragraphs) THEN list
    ELSE IF Strip(paragraphs[i]) = <<>>
         THEN LineLoop(paragraphs, i + 1, Append(list, <<<<>>, <<"\n">>>>))
         ELSE LineLoop(paragraphs, i + 1,
                  CloseLine(FragmentLoop(ReSplit(Strip(paragraphs[i])),
                                         1, list, <<>>)))

\* split_sentences: protect, split, restore
split_sentences(text, abbrs) ==
    LET list == LineLoop(SplitLines(protect_abbreviations(text, abbrs)),
                         1, <<>>)
    IN  [k \in 1..Len(list) |->
           <<restore_abbreviations(list[k][1]), list[k][2]>>]

\* text + trailingWhitespace over the pairs, in order
JoinSentences(list) ==
    Concat([k \in 1..Len(list) |-> list[k][1] \o list[k][2]])

(***************************************************************************)
(* Language detector.  JA_HIRA, JA_KATA and JA_KANJI stand for a character *)
(* of the ranges 3040-309F, 30A0-30FF and 4E00-9FAF.                       *)
(***************************************************************************)
Japanese == {"JA_HIRA", "JA_KATA", "JA_KANJI"}

\* len(re.findall('[class]', text))
CountIn(text, class) ==
    Cardinality({k \in 1..Len(text) : text[k] \in class})

\* 'ja' only when the Japanese share of the letters is above 0.3
detect_language_above(text) ==
    LET japanese_chars == CountIn(text, Japanese)
        total_chars == CountIn(text, Upper \cup Lower \cup Japanese)
    IN  IF total_chars = 0 THEN "en"
        ELSE IF 10 * japanese_chars > 3 * total_chars THEN "ja" ELSE "en"

\* detect_language: 'ja' when the Japanese share of the letters is >= 0.3
detect_language(text) ==
    LET japanese_chars == CountIn(text, Japanese)
        total_chars == CountIn(text, Upper \cup Lower \cup Japanese)
    IN  IF total_chars = 0 THEN "en"
        ELSE IF 10 * japanese_chars >= 3 * total_chars THEN "ja" ELSE "en"

\* detect_language of local_translation/utils/language_utils.py
utils_detect_language(text) ==
    LET japanese_chars == CountIn(text, Japanese)
        total_chars == CountIn(text, Upper \cup Lower \cup Japanese)
    IN  IF total_chars = 0 THEN "en"
        ELSE IF 10 * japanese_chars >= 3 * total_chars THEN "ja" ELSE "en"

(***************************************************************************)
(* Topic oracle.  What the HTTP call does is an input of the model.        *)
(***************************************************************************)
\* the ways the POST to the classification service can end
OracleOutcomes == {"says_topic_shift",  \* 200, content contains 'topic shift'
                   "says_wadai_tenkan", \* 200, content contains the ja label
                   "says_other",        \* 200, content contains neither label
                   "connection_error",  \* requests.ConnectionError
                   "timeout",           \* requests.Timeout after 15 s
                   "http_error",        \* raise_for_status() raises HTTPError
                   "not_json",          \* response.json() cannot decode the body
                   "no_content"}        \* JSON without choices[0].message.content

\* the outcomes in which the call failed or its response cannot be parsed
OracleFailures == {"connection_error", "timeout", "http_error", "not_json",
                   "no_content"}

\* is_topic_shift with an except clause that re-raises instead of returning False
is_topic_shift_reraise(language, outcome) ==
    CASE outcome = "says_topic_shift" ->
             IF language = "ja" THEN {"false"} ELSE {"true"}
      [] outcome = "says_wadai_tenkan" ->
             IF language = "ja" THEN {"true"} ELSE {"false"}
      [] outcome = "says_other" -> {"false"}
      [] OTHER -> {"raise"}

\* is_topic_shift: the set of results the call can have, "true" / "false"
\* returned or "raise" for an exception that leaves the function.  Only
\* requests.exceptions.RequestException is caught; a body that is not JSON
\* raises a RequestException or a plain ValueError depending on the
\* installed requests version.
is_topic_shift(language, outcome) ==
    CASE outcome = "says_topic_shift" ->
             IF language = "ja" THEN {"false"} ELSE {"true"}
      [] outcome = "says_wadai_tenkan" ->
             IF language = "ja" THEN {"true"} ELSE {"false"}
      [] outcome = "says_other" -> {"false"}
      [] outcome \in {"connection_error", "timeout", "http_error"} -> {"false"}
      [] outcome = "not_json" -> {"false", "raise"}
      [] outcome = "no_content" -> {"raise"}

(***************************************************************************)
(* Bounded inputs.                                                         *)
(***************************************************************************)
\* longest document of the guard specification, in tokens
MaxGuardTokens == 5

\* longest document of the segmenter specification, in tokens
MaxSegTokens == 4

\* longest document handed to sentence_based_chunk, in tokens
MaxDocTokens == 4

\* longest document of the vocabulary loading specification, in tokens
MaxLoadTokens == 3

\* longest document handed to detect_language, in tokens
MaxLangTokens == 5

\* every concatenation of at most n tokens
TokenDocs(tokens, n) ==
    {Concat(ts) : ts \in UNION {[1..k -> tokens] : k \in 0..n}}

\* documents of the guard specification; one token is the sentinel text itself
GuardTokens == {<<"a">>, <<"A">>, <<".">>, <<" ">>, Sentinel}

GuardDocs == TokenDocs(GuardTokens, MaxGuardTokens)

\* abbreviation vocabularies of the guard specification
AbbrSets == {{},
             {<<"a", ".", "a">>},
             {<<"A", ".">>, <<"a", ".", "a", ".">>},
             {<<"a", ".">>, <<".", "a">>}}

\* values a YAML mapping can hold under a key: a list of abbreviations, a
\* string, a number
VocabularyValues ==
    {[kind |-> "list", items |-> {}],
     [kind |-> "list", items |-> {<<"a", ".">>}],
     [kind |-> "list", items |-> {<<"a", ".", "a">>, <<"A", ".">>}],
     [kind |-> "string", items |-> {<<"a", ".">>}],
     [kind |-> "number", items |-> {}]}

\* states of the vocabulary file: it cannot be opened or parsed, or it holds
\* a mapping of at most two values
AbbreviationFiles ==
    {[kind |-> k, values |-> <<>>] : k \in LoadFailures}
    \cup {[kind |-> "mapping", values |-> vs] :
              vs \in UNION {[1..n -> VocabularyValues] : n \in 0..2}}

\* a vocabulary file that lists the given abbreviations under one key
ListedIn(set) ==
    [kind |-> "mapping", values |-> <<[kind |-> "list", items |-> set]>>]

\* documents of the vocabulary loading specification
LoadDocs == TokenDocs({<<"a">>, <<"A">>, <<".">>, <<" ">>}, MaxLoadTokens)

\* documents handed to detect_language: single letters, a word of seven
\* letters, Japanese characters, a blank and two characters outside the
\* classes of detect_language, an accented Latin letter (U+00E9) and an
\* ideograph outside U+4E00-U+9FAF (U+3400)
LangTokens == {<<"a">>, <<"A", "b", "c", "d", "e", "f", "g">>,
               <<"JA_HIRA">>, <<"JA_KATA">>, <<"JA_KANJI">>, <<" ">>,
               <<"LATIN_ACCENTED">>, <<"CJK_EXT_A">>}

LangDocs == TokenDocs(LangTokens, MaxLangTokens)

\* sorted(abbreviation_set, key=len, reverse=True): any order of the set with
\* non-increasing lengths (the order of equal lengths is the set's own)
SortedAbbreviations(set) ==
    {f \in [1..Cardinality(set) -> set] :
        /\ \A i, j \in DOMAIN f : i # j => f[i] # f[j]
        /\ \A i, j \in DOMAIN f : i < j => Len(f[i]) >= Len(f[j])}

\* documents of the segmenter specification
SegTokens == {<<"a">>, <<"A">>, <<".">>, <<"!">>, <<" ">>, <<"\n">>, <<"1">>,
              <<"a", ".", "a", "!">>, <<"a", ".", "a", ".">>,
              <<"!", "!", "!">>}

SegDocs == TokenDocs(SegTokens, MaxSegTokens)

\* documents of the assembler: 'a.a!' and 'a.aaa!' are sentences of their own
\* (20 and 22 characters once protected), 'a' is a short fragment
DocTokens == {<<"a", ".", "a", "!">>, <<"a", ".", "a", "a", "a", "!">>,
              <<"a">>, <<" ">>, <<"\n">>}

Docs == TokenDocs(DocTokens, MaxDocTokens)

\* the defaults of SentenceBasedChunker.__init__
DefaultMaxChunkSize == 2000

DefaultMinChunkSize == 300

\* the size settings the assembler is run with (min > max is not rejected)
MaxChunkSizes == {5, 10}

MinChunkSizes == {0, 4, 9, 12}

(***************************************************************************)
(* State.                                                                  *)
(***************************************************************************)
VARIABLES
    pc,                      \* position of the run
    text,                    \* the document
    abbreviation_file,       \* the file self.abbreviation_file names
    abbreviation_set,        \* self.abbreviation_set
    abbrs,                   \* sorted(self.abbreviation_set, key=len, reverse=True)
    max_chunk_size,          \* self.max_chunk_size
    min_chunk_size,          \* self.min_chunk_size
    overlap,                 \* self.overlap / the overlap argument
    window_size,             \* self.window_size
    protected,               \* result of protect_abbreviations(text)
    restored,                \* result of restore_abbreviations(protected)
    reprotected,             \* result of protect_abbreviations(protected)
    sentences_with_newlines, \* result of split_sentences(text)
    paragraphs,              \* result of split_paragraphs(text)
    idx,                     \* index of the unit the for loop is at
    chunks,                  \* chunks
    current_chunk,           \* current_chunk
    sentence_count,          \* sentence_count
    members,                 \* history: the sentence indices of each chunk
    cur_members,             \* history: the sentence indices in current_chunk
    cut_at,                  \* history: index of the paragraph at the last cut
    window_paragraphs,       \* window_paragraphs
    oracle_outcome,          \* how the last oracle call ended
    oracle_result,           \* what the last oracle call gave its caller
    asked_chunk,             \* history: first span of the last oracle call
    asked_sentence,          \* history: second span of the last oracle call
    asked_members,           \* history: units in the accumulator at that call
    answers,                 \* history: <<unit index, result>> of every call
    language,                \* result of self.detect_language(text)
    utils_language,          \* result of language_utils.detect_language(text)
    file_state,              \* the input file of chunk_file
    written,                 \* the files chunk_file has written
    chunk_file_result        \* return value of chunk_file

vars == <<pc, text, abbreviation_file, abbreviation_set, abbrs, max_chunk_size, min_chunk_size,
          overlap, window_size, cut_at, window_paragraphs,
          protected, restored, reprotected, sentences_with_newlines,
          paragraphs, idx, chunks, current_chunk, sentence_count, members, cur_members,
          oracle_outcome, oracle_result, asked_chunk, asked_sentence,
          asked_members, answers, language, utils_language, file_state, written,
          chunk_file_result>>

guardVars == <<protected, restored, reprotected>>

loopVars == <<sentences_with_newlines, paragraphs, idx, chunks, current_chunk,
              sentence_count, members, cur_members>>

oracleVars == <<oracle_outcome, oracle_result, asked_chunk, asked_sentence,
                asked_members, answers>>

langVars == <<language, utils_language>>

variantVars == <<cut_at, window_paragraphs>>

fileVars == <<file_state, written, chunk_file_result>>

configVars == <<text, abbreviation_file, abbreviation_set, abbrs,
                max_chunk_size, min_chunk_size, overlap, window_size>>

\* the values of the variables a run has not touched yet
Untouched ==
    /\ protected = <<>>
    /\ restored = <<>>
    /\ reprotected = <<>>
    /\ sentences_with_newlines = <<>>
    /\ paragraphs = <<>>
    /\ idx = 1
    /\ chunks = <<>>
    /\ current_chunk = <<>>
    /\ sentence_count = 0
    /\ members = <<>>
    /\ cur_members = <<>>
    /\ oracle_outcome = "none"
    /\ oracle_result = "none"
    /\ asked_chunk = <<>>
    /\ asked_sentence = <<>>
    /\ asked_members = 0
    /\ answers = <<>>
    /\ cut_at = 0
    /\ window_paragraphs = <<>>
    /\ language = "none"
    /\ utils_language = "none"
    /\ written = <<>>
    /\ chunk_file_result = "none"

(***************************************************************************)
(* Abbreviation guard specification.                                       *)
(***************************************************************************)
InitGuard ==
    /\ pc = "guard"
    /\ text \in GuardDocs
    /\ abbreviation_set \in AbbrSets
    /\ abbreviation_file = ListedIn(abbreviation_set)
    /\ abbrs \in SortedAbbreviations(abbreviation_set)
    /\ max_chunk_size = DefaultMaxChunkSize
    /\ min_chunk_size = DefaultMinChunkSize
    /\ file_state = "none"
    /\ overlap = 0
    /\ window_size = 0
    /\ Untouched

\* protected = protect_abbreviations(text)
Protect ==
    /\ pc = "guard"
    /\ protected' = protect_abbreviations(text, abbrs)
    /\ pc' = "protected"
    /\ UNCHANGED <<configVars, langVars, variantVars, restored, reprotected, loopVars, oracleVars,
                   fileVars>>

\* restored = restore_abbreviations(protected)
Restore ==
    /\ pc = "protected"
    /\ restored' = restore_abbreviations(protected)
    /\ pc' = "restored"
    /\ UNCHANGED <<configVars, langVars, variantVars, protected, reprotected, loopVars, oracleVars,
                   fileVars>>

\* reprotected = protect_abbreviations(protected)
ProtectAgain ==
    /\ pc = "protected"
    /\ reprotected' = protect_abbreviations(protected, abbrs)
    /\ pc' = "reprotected"
    /\ UNCHANGED <<configVars, langVars, variantVars, protected, restored, loopVars, oracleVars,
                   fileVars>>

NextGuard == Protect \/ Restore \/ ProtectAgain

SpecGuard == InitGuard /\ [][NextGuard]_vars

(***************************************************************************)
(* Construction: load_abbreviations, then the guard on a document.         *)
(***************************************************************************)
InitLoad ==
    /\ pc = "construct"
    /\ text \in LoadDocs
    /\ abbreviation_file \in AbbreviationFiles
    /\ abbreviation_set = {}
    /\ abbrs = <<>>
    /\ max_chunk_size = DefaultMaxChunkSize
    /\ min_chunk_size = DefaultMinChunkSize
    /\ file_state = "none"
    /\ overlap = 0
    /\ window_size = 0
    /\ Untouched

\* __init__: self.abbreviation_set = self.load_abbreviations()
Construct ==
    /\ pc = "construct"
    /\ abbreviation_set' = load_abbreviations(abbreviation_file)
    /\ abbrs' \in SortedAbbreviations(abbreviation_set')
    /\ pc' = "guard"
    /\ UNCHANGED <<text, abbreviation_file, max_chunk_size, min_chunk_size,
                   overlap, window_size, langVars, variantVars, guardVars, loopVars, oracleVars, fileVars>>

NextLoad == Construct \/ Protect

SpecLoad == InitLoad /\ [][NextLoad]_vars

(***************************************************************************)
(* Language detection specification.                                       *)
(***************************************************************************)
InitLang ==
    /\ pc = "detect_language"
    /\ text \in LangDocs
    /\ abbreviation_set = {}
    /\ abbreviation_file = ListedIn(abbreviation_set)
    /\ abbrs = <<>>
    /\ max_chunk_size = DefaultMaxChunkSize
    /\ min_chunk_size = DefaultMinChunkSize
    /\ file_state = "none"
    /\ overlap = 0
    /\ window_size = 0
    /\ Untouched

\* the method and the shared function are called on the same text
DetectLanguage ==
    /\ pc = "detect_language"
    /\ language' = detect_language(text)
    /\ utils_language' = utils_detect_language(text)
    /\ pc' = "detected"
    /\ UNCHANGED <<configVars, variantVars, guardVars, loopVars, oracleVars,
                   fileVars>>

NextLang == DetectLanguage

SpecLang == InitLang /\ [][NextLang]_vars

(***************************************************************************)
(* Segmenter specification.                                                *)
(***************************************************************************)
InitSeg ==
    /\ pc = "segment"
    /\ text \in SegDocs
    /\ abbreviation_set \in {{}, {<<"a", ".", "a">>}}
    /\ abbreviation_file = ListedIn(abbreviation_set)
    /\ abbrs \in SortedAbbreviations(abbreviation_set)
    /\ max_chunk_size = DefaultMaxChunkSize
    /\ min_chunk_size = DefaultMinChunkSize
    /\ file_state = "none"
    /\ overlap = 0
    /\ window_size = 0
    /\ Untouched

\* sentences_with_newlines = split_sentences(text)
Segment ==
    /\ pc = "segment"
    /\ sentences_with_newlines' = split_sentences(text, abbrs)
    /\ pc' = "segmented"
    /\ UNCHANGED <<configVars, langVars, variantVars, guardVars, paragraphs, idx, chunks,
                   current_chunk, sentence_count, members, cur_members,
                   oracleVars, fileVars>>

NextSeg == Segment

SpecSeg == InitSeg /\ [][NextSeg]_vars

(***************************************************************************)
(* chunk_file and sentence_based_chunk.                                    *)
(***************************************************************************)
\* what open()/read() of the input file can meet
FileStates == {"readable", "missing", "undecodable"}

Init ==
    /\ pc = "chunk_file"
    /\ file_state \in FileStates
    /\ text \in (IF file_state = "readable" THEN Docs ELSE {<<>>})
    /\ abbreviation_set = {}
    /\ abbreviation_file = ListedIn(abbreviation_set)
    /\ abbrs \in SortedAbbreviations(abbreviation_set)
    /\ max_chunk_size \in MaxChunkSizes
    /\ min_chunk_size \in MinChunkSizes
    /\ overlap = 0
    /\ window_size = 0
    /\ Untouched

\* chunk_file reading with errors='ignore': only a missing file returns False,
\* a file that cannot be decoded is chunked as the text that could be read
ChunkFileReadLenient ==
    /\ pc = "chunk_file"
    /\ IF file_state # "missing"
       THEN /\ pc' = "sentence_based_chunk"
            /\ UNCHANGED chunk_file_result
       ELSE /\ pc' = "exit"
            /\ chunk_file_result' = "False"
    /\ UNCHANGED <<configVars, langVars, variantVars, guardVars, loopVars, oracleVars,
                   file_state, written>>

\* chunk_file up to the call of sentence_based_chunk: a missing file returns
\* False, a read error is caught by the except clause and returns False
ChunkFileRead ==
    /\ pc = "chunk_file"
    /\ IF file_state = "readable"
       THEN /\ pc' = "sentence_based_chunk"
            /\ UNCHANGED chunk_file_result
       ELSE /\ pc' = "exit"
            /\ chunk_file_result' = "False"
    /\ UNCHANGED <<configVars, langVars, variantVars, guardVars, loopVars, oracleVars, file_state,
                   written>>

\* sentence_based_chunk up to the for loop
StartChunk ==
    /\ pc = "sentence_based_chunk"
    /\ sentences_with_newlines' = split_sentences(text, abbrs)
    /\ pc' = IF sentences_with_newlines' = <<>> THEN "returned" ELSE "loop"
    /\ chunks' = <<>>
    /\ current_chunk' = <<>>
    /\ sentence_count' = 0
    /\ idx' = 1
    /\ UNCHANGED <<configVars, langVars, variantVars, guardVars, paragraphs, members, cur_members,
                   oracleVars, fileVars>>

\* the for loop is at a sentence
AtSentence == pc = "loop" /\ idx <= Len(sentences_with_newlines)

sentence == sentences_with_newlines[idx][1]

sentence_with_newline ==
    sentences_with_newlines[idx][1] \o sentences_with_newlines[idx][2]

\* the size check without the length of the accumulator
combined_size_sentence_only == Len(sentence_with_newline)

combined_size ==
    IF current_chunk # <<>>
    THEN Len(current_chunk) + Len(sentence_with_newline)
    ELSE Len(sentence_with_newline)

\* a tolerance of 100% in place of 20%
WithinToleranceLoose(n) == 10 * n <= 20 * max_chunk_size

\* len(x) <= self.max_chunk_size * 1.2
WithinTolerance(n) == 10 * n <= 12 * max_chunk_size

\* chunks.append(current_chunk.rstrip()); current_chunk = sentence_with_newline
FlushAndStart ==
    /\ chunks' = Append(chunks, RStrip(current_chunk))
    /\ current_chunk' = sentence_with_newline
    /\ sentence_count' = 1
    /\ members' = Append(members, cur_members)
    /\ cur_members' = <<idx>>

\* current_chunk += sentence_with_newline
AppendSentence ==
    /\ current_chunk' = current_chunk \o sentence_with_newline
    /\ sentence_count' = sentence_count + 1
    /\ cur_members' = Append(cur_members, idx)
    /\ UNCHANGED <<chunks, members>>

\* the oversize sentence is emitted but the accumulator is kept as it is
OversizeKeepsAccumulator ==
    /\ AtSentence
    /\ Len(sentence_with_newline) > max_chunk_size
    /\ chunks' = Append(chunks, RStrip(sentence_with_newline))
    /\ members' = Append(members, <<idx>>)
    /\ sentence_count' = sentence_count + 1
    /\ idx' = idx + 1
    /\ UNCHANGED <<pc, configVars, langVars, variantVars, guardVars,
                   sentences_with_newlines, paragraphs, current_chunk,
                   cur_members, oracleVars, fileVars>>

\* lines 290-296: a sentence longer than max_chunk_size is a chunk of its own
Oversize ==
    /\ AtSentence
    /\ Len(sentence_with_newline) > max_chunk_size
    /\ IF current_chunk # <<>>
       THEN /\ chunks' = chunks \o <<RStrip(current_chunk),
                                    RStrip(sentence_with_newline)>>
            /\ members' = members \o <<cur_members, <<idx>>>>
            /\ sentence_count' = 0
       ELSE /\ chunks' = Append(chunks, RStrip(sentence_with_newline))
            /\ members' = Append(members, <<idx>>)
            /\ sentence_count' = sentence_count + 1
    /\ current_chunk' = <<>>
    /\ cur_members' = <<>>
    /\ idx' = idx + 1
    /\ UNCHANGED <<pc, configVars, langVars, variantVars, guardVars, sentences_with_newlines,
                   paragraphs, oracleVars, fileVars>>

\* lines 305-309: the accumulator is large enough, flush it
ExceedFlush ==
    /\ AtSentence
    /\ Len(sentence_with_newline) <= max_chunk_size
    /\ combined_size > max_chunk_size
    /\ Len(current_chunk) >= min_chunk_size
    /\ FlushAndStart
    /\ idx' = idx + 1
    /\ UNCHANGED <<pc, configVars, langVars, variantVars, guardVars, sentences_with_newlines,
                   paragraphs, oracleVars, fileVars>>

\* lines 310-313: under the minimum, append within the 20% tolerance
ExceedForce ==
    /\ AtSentence
    /\ Len(sentence_with_newline) <= max_chunk_size
    /\ combined_size > max_chunk_size
    /\ Len(current_chunk) < min_chunk_size
    /\ WithinTolerance(Len(current_chunk \o sentence_with_newline))
    /\ AppendSentence
    /\ idx' = idx + 1
    /\ UNCHANGED <<pc, configVars, langVars, variantVars, guardVars, sentences_with_newlines,
                   paragraphs, oracleVars, fileVars>>

\* lines 314-318: under the minimum and past the tolerance, flush anyway
ExceedSplit ==
    /\ AtSentence
    /\ Len(sentence_with_newline) <= max_chunk_size
    /\ combined_size > max_chunk_size
    /\ Len(current_chunk) < min_chunk_size
    /\ ~WithinTolerance(Len(current_chunk \o sentence_with_newline))
    /\ FlushAndStart
    /\ idx' = idx + 1
    /\ UNCHANGED <<pc, configVars, langVars, variantVars, guardVars, sentences_with_newlines,
                   paragraphs, oracleVars, fileVars>>

\* line 323: the gate of the oracle call
OracleGate == Len(current_chunk) >= min_chunk_size /\ sentence_count + 1 >= 2

\* lines 321-329: within the budget, the oracle decides
ConsultOracle ==
    /\ AtSentence
    /\ Len(sentence_with_newline) <= max_chunk_size
    /\ combined_size <= max_chunk_size
    /\ current_chunk # <<>>
    /\ OracleGate
    /\ asked_chunk' = current_chunk
    /\ asked_sentence' = sentence
    /\ asked_members' = Len(cur_members)
    /\ \E outcome \in OracleOutcomes :
         \E r \in is_topic_shift(
                      detect_language(current_chunk \o <<" ">> \o sentence),
                      outcome) :
            /\ oracle_outcome' = outcome
            /\ oracle_result' = r
            /\ answers' = Append(answers, <<idx, r>>)
            /\ CASE r = "true" ->
                      /\ FlushAndStart
                      /\ idx' = idx + 1
                      /\ pc' = pc
                 [] r = "false" ->
                      /\ AppendSentence
                      /\ idx' = idx + 1
                      /\ pc' = pc
                 [] r = "raise" ->
                      /\ pc' = "raised"
                      /\ UNCHANGED <<idx, chunks, current_chunk,
                                     sentence_count, members, cur_members>>
    /\ UNCHANGED <<configVars, langVars, variantVars, guardVars, sentences_with_newlines, paragraphs,
                   fileVars>>

\* lines 330-331: within the budget, no oracle call
AppendUnasked ==
    /\ AtSentence
    /\ Len(sentence_with_newline) <= max_chunk_size
    /\ combined_size <= max_chunk_size
    /\ current_chunk # <<>>
    /\ ~OracleGate
    /\ AppendSentence
    /\ idx' = idx + 1
    /\ UNCHANGED <<pc, configVars, langVars, variantVars, guardVars, sentences_with_newlines,
                   paragraphs, oracleVars, fileVars>>

\* lines 332-333: the sentence starts the empty accumulator
StartAccumulator ==
    /\ AtSentence
    /\ Len(sentence_with_newline) <= max_chunk_size
    /\ combined_size <= max_chunk_size
    /\ current_chunk = <<>>
    /\ current_chunk' = sentence_with_newline
    /\ sentence_count' = sentence_count + 1
    /\ cur_members' = <<idx>>
    /\ idx' = idx + 1
    /\ UNCHANGED <<pc, configVars, langVars, variantVars, guardVars, sentences_with_newlines,
                   paragraphs, chunks, members, oracleVars, fileVars>>

\* the return without the final flush
FinishChunkNoFlush ==
    /\ pc = "loop"
    /\ idx > Len(sentences_with_newlines)
    /\ pc' = "returned"
    /\ UNCHANGED <<configVars, langVars, variantVars, guardVars, loopVars, oracleVars, fileVars>>

\* lines 335-339: flush what is left and return
FinishChunk ==
    /\ pc = "loop"
    /\ idx > Len(sentences_with_newlines)
    /\ IF current_chunk # <<>>
       THEN /\ chunks' = Append(chunks, RStrip(current_chunk))
            /\ members' = Append(members, cur_members)
       ELSE UNCHANGED <<chunks, members>>
    /\ pc' = "returned"
    /\ UNCHANGED <<configVars, langVars, variantVars, guardVars, sentences_with_newlines, paragraphs,
                   idx, current_chunk, sentence_count, cur_members, oracleVars,
                   fileVars>>

\* chunk_file after the chunks came back: one file per chunk, then
\* metadata.json; a write can fail (OSError), which the except clause turns
\* into False with the files written so far left behind
ChunkFileWrite ==
    /\ pc = "returned"
    /\ \E n \in 0..(Len(chunks) + 1) :
          /\ written' = [k \in 1..n |->
                           IF k <= Len(chunks) THEN <<"chunk", k>>
                                               ELSE <<"metadata", Len(chunks)>>]
          /\ chunk_file_result' =
                 IF n = Len(chunks) + 1 THEN "True" ELSE "False"
    /\ pc' = "exit"
    /\ UNCHANGED <<configVars, langVars, variantVars, guardVars, loopVars, oracleVars, file_state>>

\* chunk_file when sentence_based_chunk raised: except Exception, return False
ChunkFileCatch ==
    /\ pc = "raised"
    /\ chunk_file_result' = "False"
    /\ pc' = "exit"
    /\ UNCHANGED <<configVars, langVars, variantVars, guardVars, loopVars, oracleVars, file_state,
                   written>>

Next ==
    \/ ChunkFileRead
    \/ StartChunk
    \/ Oversize
    \/ ExceedFlush
    \/ ExceedForce
    \/ ExceedSplit
    \/ ConsultOracle
    \/ AppendUnasked
    \/ StartAccumulator
    \/ FinishChunk
    \/ ChunkFileWrite
    \/ ChunkFileCatch

Spec == Init /\ [][Next]_vars

(***************************************************************************)
(* ProgressiveChunkerV2: split_paragraphs, is_topic_boundary and           *)
(* progressive_chunk.                                                      *)
(***************************************************************************)
\* paragraphs shorter than this are joined to the previous one
ShortParagraphLen == 50

\* the text between two paragraphs of a chunk
ParagraphBreak == <<"\n", "\n">>

\* index of the last line break of the whitespace run starting at i, or 0
\* if the run holds none: where \n\s*\n, begun at i - 1, ends
LastNewlineInRun(s, i) ==
    LET stops == {k \in i..Len(s) : s[k] \notin Whitespace}
        last == IF stops = {} THEN Len(s) ELSE Least(stops) - 1
        breaks == {k \in i..last : s[k] = "\n"}
    IN  IF breaks = {} THEN 0 ELSE Greatest(breaks)

RECURSIVE SplitBlankLinesFrom(_, _)
SplitBlankLinesFrom(s, start) ==
    LET hits == {i \in start..Len(s) :
                    s[i] = "\n" /\ LastNewlineInRun(s, i + 1) # 0}
    IN  IF hits = {} THEN <<SubSeq(s, start, Len(s))>>
        ELSE <<SubSeq(s, start, Least(hits) - 1)>>
             \o SplitBlankLinesFrom(s, LastNewlineInRun(s, Least(hits) + 1) + 1)

\* re.split(r'\n\s*\n', s)
SplitBlankLines(s) == SplitBlankLinesFrom(s, 1)

RECURSIVE JoinShortParagraphs(_, _, _, _)
\* lines 52-66: drop empty paragraphs, join one under 50 characters to temp
JoinShortParagraphs(raw, i, cleaned, temp) ==
    IF i > Len(raw)
    THEN IF temp # <<>> THEN Append(cleaned, temp) ELSE cleaned
    ELSE LET paragraph == Strip(raw[i])
         IN  IF paragraph = <<>>
             THEN JoinShortParagraphs(raw, i + 1, cleaned, temp)
             ELSE IF Len(paragraph) < ShortParagraphLen /\ temp # <<>>
                  THEN JoinShortParagraphs(raw, i + 1, cleaned,
                           temp \o ParagraphBreak \o paragraph)
                  ELSE JoinShortParagraphs(raw, i + 1,
                           IF temp # <<>> THEN Append(cleaned, temp)
                                          ELSE cleaned,
                           paragraph)

\* split_paragraphs
split_paragraphs(t) ==
    JoinShortParagraphs(SplitBlankLines(Strip(t)), 1, <<>>, <<>>)

\* the ways the POST of is_topic_boundary can end
BoundaryOutcomes == {"says_new_topic",   \* 200, content contains a new-topic label
                     "says_other",       \* 200, content contains neither label
                     "connection_error", "timeout", "http_error", "not_json",
                     "no_content"}

\* is_topic_boundary: the set of results the call can have (see is_topic_shift)
is_topic_boundary(outcome) ==
    CASE outcome = "says_new_topic" -> {"true"}
      [] outcome = "says_other" -> {"false"}
      [] outcome \in {"connection_error", "timeout", "http_error"} -> {"false"}
      [] outcome = "not_json" -> {"false", "raise"}
      [] outcome = "no_content" -> {"raise"}

\* one paragraph of 50 characters
LongParagraph == [k \in 1..ShortParagraphLen |-> "a"]

\* longest document handed to progressive_chunk, in tokens
MaxParagraphTokens == 5

ParagraphTokens == {LongParagraph, <<"a">>, ParagraphBreak}

ParagraphDocs == TokenDocs(ParagraphTokens, MaxParagraphTokens)

\* the size settings progressive_chunk is run with
MaxParagraphChunkSizes == {60, 100}

MinParagraphChunkSizes == {0, 55, 110}

InitV2 ==
    /\ pc = "progressive_chunk"
    /\ file_state = "none"
    /\ text \in ParagraphDocs
    /\ abbreviation_file = ListedIn({})
    /\ abbreviation_set = {}
    /\ abbrs = <<>>
    /\ max_chunk_size \in MaxParagraphChunkSizes
    /\ min_chunk_size \in MinParagraphChunkSizes
    /\ overlap = 0
    /\ window_size = 0
    /\ Untouched

\* progressive_chunk up to the for loop
StartProgressive ==
    /\ pc = "progressive_chunk"
    /\ paragraphs' = split_paragraphs(text)
    /\ pc' = IF paragraphs' = <<>> THEN "v2_returned" ELSE "v2_loop"
    /\ chunks' = <<>>
    /\ current_chunk' = <<>>
    /\ idx' = 1
    /\ UNCHANGED <<configVars, langVars, variantVars, guardVars, sentences_with_newlines,
                   sentence_count, members, cur_members, oracleVars, fileVars>>

AtParagraph == pc = "v2_loop" /\ idx <= Len(paragraphs)

paragraph == paragraphs[idx]

combined_size_v2 ==
    IF current_chunk # <<>>
    THEN Len(current_chunk) + Len(paragraph) + 2
    ELSE Len(paragraph)

\* chunks.append(current_chunk.strip()); current_chunk = paragraph
FlushAndStartV2 ==
    /\ chunks' = Append(chunks, Strip(current_chunk))
    /\ current_chunk' = paragraph
    /\ members' = Append(members, cur_members)
    /\ cur_members' = <<idx>>

\* current_chunk += "\n\n" + paragraph
AppendParagraph ==
    /\ current_chunk' = current_chunk \o ParagraphBreak \o paragraph
    /\ cur_members' = Append(cur_members, idx)
    /\ UNCHANGED <<chunks, members>>

v2Frame == <<configVars, langVars, variantVars, guardVars, sentences_with_newlines, paragraphs,
             sentence_count, fileVars>>

\* lines 155-159
ExceedFlushV2 ==
    /\ AtParagraph
    /\ combined_size_v2 > max_chunk_size
    /\ Len(current_chunk) >= min_chunk_size
    /\ FlushAndStartV2
    /\ idx' = idx + 1
    /\ UNCHANGED <<pc, v2Frame, oracleVars>>

\* lines 160-163
ExceedForceV2 ==
    /\ AtParagraph
    /\ combined_size_v2 > max_chunk_size
    /\ Len(current_chunk) < min_chunk_size
    /\ WithinTolerance(Len(current_chunk \o ParagraphBreak \o paragraph))
    /\ AppendParagraph
    /\ idx' = idx + 1
    /\ UNCHANGED <<pc, v2Frame, oracleVars>>

\* lines 164-167
ExceedSplitV2 ==
    /\ AtParagraph
    /\ combined_size_v2 > max_chunk_size
    /\ Len(current_chunk) < min_chunk_size
    /\ ~WithinTolerance(Len(current_chunk \o ParagraphBreak \o paragraph))
    /\ FlushAndStartV2
    /\ idx' = idx + 1
    /\ UNCHANGED <<pc, v2Frame, oracleVars>>

\* lines 170-179
ConsultOracleV2 ==
    /\ AtParagraph
    /\ combined_size_v2 <= max_chunk_size
    /\ current_chunk # <<>>
    /\ Len(current_chunk) >= min_chunk_size
    /\ asked_chunk' = current_chunk
    /\ asked_sentence' = paragraph
    /\ asked_members' = Len(cur_members)
    /\ \E outcome \in BoundaryOutcomes :
         \E r \in is_topic_boundary(outcome) :
            /\ oracle_outcome' = outcome
            /\ oracle_result' = r
            /\ answers' = Append(answers, <<idx, r>>)
            /\ CASE r = "true" ->
                      /\ FlushAndStartV2
                      /\ idx' = idx + 1
                      /\ pc' = pc
                 [] r = "false" ->
                      /\ AppendParagraph
                      /\ idx' = idx + 1
                      /\ pc' = pc
                 [] r = "raise" ->
                      /\ pc' = "v2_raised"
                      /\ UNCHANGED <<idx, chunks, current_chunk, members,
                                     cur_members>>
    /\ UNCHANGED v2Frame

\* lines 180-182
AppendUnaskedV2 ==
    /\ AtParagraph
    /\ combined_size_v2 <= max_chunk_size
    /\ current_chunk # <<>>
    /\ Len(current_chunk) < min_chunk_size
    /\ AppendParagraph
    /\ idx' = idx + 1
    /\ UNCHANGED <<pc, v2Frame, oracleVars>>

\* lines 183-184
StartAccumulatorV2 ==
    /\ AtParagraph
    /\ combined_size_v2 <= max_chunk_size
    /\ current_chunk = <<>>
    /\ current_chunk' = paragraph
    /\ cur_members' = <<idx>>
    /\ idx' = idx + 1
    /\ UNCHANGED <<pc, v2Frame, chunks, members, oracleVars>>

\* lines 186-190
FinishProgressive ==
    /\ pc = "v2_loop"
    /\ idx > Len(paragraphs)
    /\ IF current_chunk # <<>>
       THEN /\ chunks' = Append(chunks, Strip(current_chunk))
            /\ members' = Append(members, cur_members)
       ELSE UNCHANGED <<chunks, members>>
    /\ pc' = "v2_returned"
    /\ UNCHANGED <<v2Frame, idx, current_chunk, cur_members, oracleVars>>

NextV2 ==
    \/ StartProgressive
    \/ ExceedFlushV2
    \/ ExceedForceV2
    \/ ExceedSplitV2
    \/ ConsultOracleV2
    \/ AppendUnaskedV2
    \/ StartAccumulatorV2
    \/ FinishProgressive

SpecV2 == InitV2 /\ [][NextV2]_vars

\* both assemblers
InitAssemblers == Init \/ InitV2

NextAssemblers == Next \/ NextV2

SpecAssemblers == InitAssemblers /\ [][NextAssemblers]_vars

(***************************************************************************)
(* The assemblers on the documents of the test scenarios.                  *)
(***************************************************************************)
\* 'Dr. Smith went home. He was tired.'
DrSmith == <<"D", "r", ".", " ", "S", "m", "i", "t", "h", " ", "w", "e", "n",
             "t", " ", "h", "o", "m", "e", ".", " ", "H", "e", " ", "w", "a",
             "s", " ", "t", "i", "r", "e", "d", ".">>

\* a paragraph of 600 characters that is one run of the letter c
PlainParagraph(c) == [i \in 1..600 |-> c]

\* a paragraph of 600 characters in twenty sentences ending in '!', one
\* blank between two sentences
ExclaimedParagraph(c) ==
    [i \in 1..600 |-> IF i % 30 = 0 THEN "!"
                      ELSE IF i % 30 = 1 /\ i > 1 THEN " " ELSE c]

\* the two paragraphs of each two-paragraph document
ParagraphPairs == {<<PlainParagraph("a"), PlainParagraph("b")>>,
                   <<ExclaimedParagraph("a"), ExclaimedParagraph("b")>>}

\* two paragraphs with an empty line between them
TwoParagraphs(pair) == pair[1] \o <<"\n", "\n">> \o pair[2]

\* single sentences of 5000 characters: one word, and words of four letters
LongSentences ==
    {[i \in 1..5000 |-> IF i = 5000 THEN "." ELSE "a"],
     [i \in 1..5000 |-> IF i = 5000 THEN "."
                        ELSE IF i % 5 = 0 THEN " " ELSE "a"]}

\* text, max_chunk_size, min_chunk_size and vocabulary of the scenarios run
\* with SentenceBasedChunker
SentenceScenarios ==
    {<<DrSmith, 1000, 5, abbreviations>> :
         abbreviations \in {{}, {<<"D", "r", ".">>}}}
    \cup {<<TwoParagraphs(pair), 1000, 500, {}>> : pair \in ParagraphPairs}
    \cup {<<long, 1000, min, {}>> :
              long \in LongSentences, min \in {0, DefaultMinChunkSize}}

\* text, max_chunk_size and min_chunk_size of the scenarios run with
\* ProgressiveChunkerV2
ParagraphScenarios ==
    {<<TwoParagraphs(pair), 1000, 500>> : pair \in ParagraphPairs}

InitSentenceScenario ==
    /\ pc = "chunk_file"
    /\ file_state = "readable"
    /\ \E scenario \in SentenceScenarios :
          /\ text = scenario[1]
          /\ max_chunk_size = scenario[2]
          /\ min_chunk_size = scenario[3]
          /\ abbreviation_set = scenario[4]
    /\ abbreviation_file = ListedIn(abbreviation_set)
    /\ abbrs \in SortedAbbreviations(abbreviation_set)
    /\ overlap = 0
    /\ window_size = 0
    /\ Untouched

InitParagraphScenario ==
    /\ pc = "progressive_chunk"
    /\ file_state = "none"
    /\ \E scenario \in ParagraphScenarios :
          /\ text = scenario[1]
          /\ max_chunk_size = scenario[2]
          /\ min_chunk_size = scenario[3]
    /\ abbreviation_file = ListedIn({})
    /\ abbreviation_set = {}
    /\ abbrs = <<>>
    /\ overlap = 0
    /\ window_size = 0
    /\ Untouched

\* both assemblers on the bounded documents and on the scenario documents
InitScenarios ==
    InitAssemblers \/ InitSentenceScenario \/ InitParagraphScenario

NextScenarios == NextAssemblers

SpecScenarios == InitScenarios /\ [][NextScenarios]_vars

(***************************************************************************)
(* The rule-only assemblers with overlap: SimpleChunker.simple_chunk and   *)
(* Chunker.chunk_text.                                                     *)
(***************************************************************************)
RECURSIVE DropEmpty(_, _)
\* the stripped paragraphs of raw from index i on, without the empty ones
DropEmpty(raw, i) ==
    IF i > Len(raw) THEN <<>>
    ELSE IF Strip(raw[i]) = <<>> THEN DropEmpty(raw, i + 1)
         ELSE <<Strip(raw[i])>> \o DropEmpty(raw, i + 1)

\* SimpleChunker.split_paragraphs, and lines 43-56 of chunk_text
split_paragraphs_simple(t) == DropEmpty(SplitBlankLines(Strip(t)), 1)

RECURSIVE SplitTerminatedFrom(_, _)
\* the pieces of s from index start on, the terminators and the white space
\* after them left out
SplitTerminatedFrom(s, start) ==
    LET hits == {k \in start..Len(s) : s[k] \in Terminator}
    IN  IF hits = {} THEN <<SubSeq(s, start, Len(s))>>
        ELSE <<SubSeq(s, start, Least(hits) - 1)>>
             \o SplitTerminatedFrom(s, SkipSpace(s, Least(hits) + 1))

\* re.split(r'[.!?。！？]\s*', s)
SplitTerminated(s) == SplitTerminatedFrom(s, 1)

\* sentence[i:i + max] for i in range(0, len(sentence), max)
CharPieces(s, max) ==
    [k \in 1..((Len(s) + max - 1) \div max) |->
        SubSeq(s, (k - 1) * max + 1,
               IF k * max < Len(s) THEN k * max ELSE Len(s))]

RECURSIVE ForcedSplitLoop(_, _, _, _, _)
\* lines 101-115 of simple_chunk: the loop over the sentences of a paragraph
\* longer than max; the result is <<chunks appended, temp_chunk>>
ForcedSplitLoop(sentences, i, emitted, temp_chunk, max) ==
    IF i > Len(sentences) THEN <<emitted, temp_chunk>>
    ELSE
      LET s == Strip(sentences[i])
      IN  IF s = <<>>
          THEN ForcedSplitLoop(sentences, i + 1, emitted, temp_chunk, max)
          ELSE IF Len(temp_chunk \o s \o <<".", " ">>) > max
               THEN IF temp_chunk # <<>>
                    THEN ForcedSplitLoop(sentences, i + 1,
                             Append(emitted, Strip(temp_chunk)),
                             s \o <<".", " ">>, max)
                    ELSE ForcedSplitLoop(sentences, i + 1,
                             emitted \o CharPieces(s, max), temp_chunk, max)
               ELSE ForcedSplitLoop(sentences, i + 1, emitted,
                        temp_chunk \o s \o <<".", " ">>, max)

\* the indices at which '\n\n' starts in s
BreaksIn(s) == {k \in 1..Len(s) : StartsAt(s, ParagraphBreak, k)}

\* current_chunk[-overlap:]
LastChars(s, n) == SubSeq(s, Len(s) - n + 1, Len(s))

\* lines 87-91 of simple_chunk: the last overlap characters, cut after their
\* last '\n\n' unless rfind gives 0 or -1
overlap_text_simple(chunk, n) ==
    LET tail == LastChars(chunk, n)
    IN  IF BreaksIn(tail) # {} /\ Greatest(BreaksIn(tail)) > 1
        THEN SubSeq(tail, Greatest(BreaksIn(tail)) + 2, Len(tail))
        ELSE tail

\* longest document handed to the rule-only assemblers, in tokens
MaxOverlapTokens == 5

OverlapTokens == {<<"a">>, <<"b", "b", "b">>, <<".", " ">>, ParagraphBreak}

OverlapDocs == TokenDocs(OverlapTokens, MaxOverlapTokens)

\* the size settings the rule-only assemblers are run with
OverlapChunkSizes == {4, 7}

Overlaps == {0, 2, 3, 5}

InitOverlap ==
    /\ pc \in {"simple_chunk", "chunk_text"}
    /\ file_state = "none"
    /\ text \in OverlapDocs
    /\ abbreviation_file = ListedIn({})
    /\ abbreviation_set = {}
    /\ abbrs = <<>>
    /\ max_chunk_size \in OverlapChunkSizes
    /\ min_chunk_size = 0
    /\ overlap \in Overlaps
    /\ window_size = 0
    /\ Untouched

overlapFrame == <<configVars, langVars, guardVars, sentences_with_newlines,
                  paragraphs, sentence_count, members, cur_members,
                  oracleVars, fileVars>>

\* simple_chunk up to the for loop
StartSimple ==
    /\ pc = "simple_chunk"
    /\ paragraphs' = split_paragraphs_simple(text)
    /\ pc' = IF paragraphs' = <<>> THEN "simple_returned" ELSE "simple_loop"
    /\ chunks' = <<>>
    /\ current_chunk' = <<>>
    /\ idx' = 1
    /\ UNCHANGED <<configVars, langVars, variantVars, guardVars,
                   sentences_with_newlines, sentence_count, members,
                   cur_members, oracleVars, fileVars>>

AtSimpleParagraph == pc = "simple_loop" /\ idx <= Len(paragraphs)

\* lines 81-94: past the size, the accumulator is flushed and the next chunk
\* is seeded from it when it is longer than overlap
SimpleCut ==
    /\ AtSimpleParagraph
    /\ combined_size_v2 > max_chunk_size
    /\ current_chunk # <<>>
    /\ chunks' = Append(chunks, Strip(current_chunk))
    /\ current_chunk' =
           IF overlap > 0 /\ Len(current_chunk) > overlap
           THEN overlap_text_simple(current_chunk, overlap)
                    \o ParagraphBreak \o paragraph
           ELSE paragraph
    /\ cut_at' = idx
    /\ UNCHANGED window_paragraphs
    /\ idx' = idx + 1
    /\ UNCHANGED <<pc, overlapFrame>>

\* lines 95-119: the paragraph alone is past the size and the accumulator is
\* empty; the paragraph is split into sentences, a sentence into pieces
SimpleForcedSplit ==
    /\ AtSimpleParagraph
    /\ combined_size_v2 > max_chunk_size
    /\ current_chunk = <<>>
    /\ LET split == ForcedSplitLoop(SplitTerminated(paragraph), 1, <<>>, <<>>,
                                    max_chunk_size)
       IN  /\ chunks' = chunks \o split[1]
           /\ current_chunk' = split[2]
    /\ idx' = idx + 1
    /\ UNCHANGED <<pc, variantVars, overlapFrame>>

\* lines 120-125: within the size, the paragraph is added
SimpleAppend ==
    /\ AtSimpleParagraph
    /\ combined_size_v2 <= max_chunk_size
    /\ current_chunk' = IF current_chunk # <<>>
                        THEN current_chunk \o ParagraphBreak \o paragraph
                        ELSE paragraph
    /\ idx' = idx + 1
    /\ UNCHANGED <<pc, variantVars, chunks, overlapFrame>>

\* lines 127-131: the last chunk
FinishSimple ==
    /\ pc = "simple_loop"
    /\ idx > Len(paragraphs)
    /\ chunks' = IF current_chunk # <<>>
                 THEN Append(chunks, Strip(current_chunk)) ELSE chunks
    /\ pc' = "simple_returned"
    /\ UNCHANGED <<variantVars, idx, current_chunk, overlapFrame>>

\* chunk_text up to the for loop; the loop skips the empty paragraphs
StartChunkText ==
    /\ pc = "chunk_text"
    /\ paragraphs' = split_paragraphs_simple(text)
    /\ pc' = IF paragraphs' = <<>> THEN "chunk_text_returned"
                                   ELSE "chunk_text_loop"
    /\ chunks' = <<>>
    /\ current_chunk' = <<>>
    /\ idx' = 1
    /\ UNCHANGED <<configVars, langVars, variantVars, guardVars,
                   sentences_with_newlines, sentence_count, members,
                   cur_members, oracleVars, fileVars>>

AtTextParagraph == pc = "chunk_text_loop" /\ idx <= Len(paragraphs)

\* lines 59-67 of chunk_text: past the size with a non-empty accumulator (the
\* branch of an empty one, lines 68-92, cannot be taken under line 59)
ChunkTextCut ==
    /\ AtTextParagraph
    /\ current_chunk # <<>>
    /\ Len(current_chunk \o ParagraphBreak \o paragraph) > max_chunk_size
    /\ chunks' = Append(chunks, Strip(current_chunk))
    /\ current_chunk' =
           IF overlap > 0 /\ Len(current_chunk) > overlap
           THEN LastChars(current_chunk, overlap) \o ParagraphBreak \o paragraph
           ELSE paragraph
    /\ cut_at' = idx
    /\ UNCHANGED window_paragraphs
    /\ idx' = idx + 1
    /\ UNCHANGED <<pc, overlapFrame>>

\* lines 93-98 of chunk_text
ChunkTextAppend ==
    /\ AtTextParagraph
    /\ \/ current_chunk = <<>>
       \/ Len(current_chunk \o ParagraphBreak \o paragraph) <= max_chunk_size
    /\ current_chunk' = IF current_chunk # <<>>
                        THEN current_chunk \o ParagraphBreak \o paragraph
                        ELSE paragraph
    /\ idx' = idx + 1
    /\ UNCHANGED <<pc, variantVars, chunks, overlapFrame>>

\* lines 100-104 of chunk_text
FinishChunkText ==
    /\ pc = "chunk_text_loop"
    /\ idx > Len(paragraphs)
    /\ chunks' = IF current_chunk # <<>>
                 THEN Append(chunks, Strip(current_chunk)) ELSE chunks
    /\ pc' = "chunk_text_returned"
    /\ UNCHANGED <<variantVars, idx, current_chunk, overlapFrame>>

NextOverlap ==
    \/ StartSimple
    \/ SimpleCut
    \/ SimpleForcedSplit
    \/ SimpleAppend
    \/ FinishSimple
    \/ StartChunkText
    \/ ChunkTextCut
    \/ ChunkTextAppend
    \/ FinishChunkText

SpecOverlap == InitOverlap /\ [][NextOverlap]_vars

(***************************************************************************)
(* ProgressiveChunker: split_paragraphs, is_topic_boundary and             *)
(* progressive_chunk over a window of paragraphs.                          *)
(***************************************************************************)
\* paragraphs shorter than this are joined to the previous one
ShortWindowParagraphLen == 100

RECURSIVE JoinParagraphsUnder(_, _, _, _, _)
\* lines 54-68: drop empty paragraphs, join one under limit characters to temp
JoinParagraphsUnder(raw, i, cleaned, temp, limit) ==
    IF i > Len(raw)
    THEN IF temp # <<>> THEN Append(cleaned, temp) ELSE cleaned
    ELSE LET stripped == Strip(raw[i])
         IN  IF stripped = <<>>
             THEN JoinParagraphsUnder(raw, i + 1, cleaned, temp, limit)
             ELSE IF Len(stripped) < limit /\ temp # <<>>
                  THEN JoinParagraphsUnder(raw, i + 1, cleaned,
                           temp \o ParagraphBreak \o stripped, limit)
                  ELSE JoinParagraphsUnder(raw, i + 1,
                           IF temp # <<>> THEN Append(cleaned, temp)
                                          ELSE cleaned,
                           stripped, limit)

\* split_paragraphs of ProgressiveChunker
split_paragraphs_windowed(t) ==
    JoinParagraphsUnder(SplitBlankLines(Strip(t)), 1, <<>>, <<>>,
                        ShortWindowParagraphLen)

RECURSIVE JoinWindow(_)
\* "\n\n".join(window_paragraphs)
JoinWindow(ps) ==
    IF ps = <<>> THEN <<>>
    ELSE IF Len(ps) = 1 THEN ps[1]
         ELSE ps[1] \o ParagraphBreak \o JoinWindow(SubSeq(ps, 2, Len(ps)))

\* the ways a call of is_topic_boundary on a window can end: no request is
\* sent for a window of fewer than two paragraphs
WindowOutcomes(window) ==
    IF Len(window) < 2 THEN {"not_asked"} ELSE BoundaryOutcomes

\* is_topic_boundary of ProgressiveChunker: the results the call can have
is_topic_boundary_windowed(window, outcome) ==
    IF Len(window) < 2 THEN {"false"} ELSE is_topic_boundary(outcome)

\* one paragraph of 100 characters
WindowParagraph == [k \in 1..ShortWindowParagraphLen |-> "a"]

\* longest document handed to ProgressiveChunker.progressive_chunk, in tokens
MaxWindowTokens == 5

WindowTokens == {WindowParagraph, <<"b">>, ParagraphBreak}

WindowDocs == TokenDocs(WindowTokens, MaxWindowTokens)

\* the settings ProgressiveChunker is run with
WindowChunkSizes == {150, 250, 350}

WindowSizes == {1, 2, 3}

InitWindowed ==
    /\ pc = "windowed_chunk"
    /\ file_state = "none"
    /\ text \in WindowDocs
    /\ abbreviation_file = ListedIn({})
    /\ abbreviation_set = {}
    /\ abbrs = <<>>
    /\ max_chunk_size \in WindowChunkSizes
    /\ min_chunk_size = 0
    /\ overlap = 0
    /\ window_size \in WindowSizes
    /\ Untouched

windowedFrame == <<configVars, langVars, guardVars, cut_at,
                   sentences_with_newlines, paragraphs, sentence_count,
                   asked_chunk, asked_sentence, asked_members, fileVars>>

\* lines 168-175: progressive_chunk up to the for loop
StartWindowed ==
    /\ pc = "windowed_chunk"
    /\ paragraphs' = split_paragraphs_windowed(text)
    /\ pc' = IF paragraphs' = <<>> THEN "windowed_returned"
                                   ELSE "windowed_loop"
    /\ chunks' = <<>>
    /\ current_chunk' = <<>>
    /\ window_paragraphs' = <<>>
    /\ idx' = 1
    /\ UNCHANGED <<configVars, langVars, guardVars, cut_at,
                   sentences_with_newlines, sentence_count, members,
                   cur_members, oracleVars, fileVars>>

AtWindowParagraph == pc = "windowed_loop" /\ idx <= Len(paragraphs)

\* the indices of the paragraphs in a window that ends with paragraph last
WindowMembers(window, last) ==
    [k \in 1..Len(window) |-> last - Len(window) + k]

\* lines 201-208: the paragraph joins the accumulator cc, or the accumulator
\* is emitted and the paragraph starts the next one
Accumulate(cc, cur, emitted, emitted_members) ==
    IF cc # <<>> /\ Len(cc \o ParagraphBreak \o paragraph) > max_chunk_size
    THEN /\ chunks' = Append(emitted, Strip(cc))
         /\ members' = Append(emitted_members, cur)
         /\ current_chunk' = paragraph
         /\ cur_members' = <<idx>>
    ELSE /\ chunks' = emitted
         /\ members' = emitted_members
         /\ current_chunk' = IF cc # <<>> THEN cc \o ParagraphBreak \o paragraph
                                          ELSE paragraph
         /\ cur_members' = Append(cur, idx)

\* lines 177-182 and 201-208: the window is not full yet
FillWindow ==
    /\ AtWindowParagraph
    /\ Len(window_paragraphs) + 1 < window_size
    /\ window_paragraphs' = Append(window_paragraphs, paragraph)
    /\ Accumulate(current_chunk, cur_members, chunks, members)
    /\ idx' = idx + 1
    /\ UNCHANGED <<pc, windowedFrame, oracle_outcome, oracle_result, answers>>

\* lines 177-208: the window is full and is_topic_boundary judges it
JudgeWindow ==
    /\ AtWindowParagraph
    /\ Len(window_paragraphs) + 1 >= window_size
    /\ LET window == Append(window_paragraphs, paragraph)
           window_text == JoinWindow(window)
           window_members == WindowMembers(window, idx)
           flushed == IF current_chunk # <<>>
                      THEN Append(chunks, Strip(current_chunk)) ELSE chunks
           flushed_members == IF current_chunk # <<>>
                              THEN Append(members, cur_members) ELSE members
           kept == Len(window_text) <= max_chunk_size
       IN  \E outcome \in WindowOutcomes(window) :
             \E r \in is_topic_boundary_windowed(window, outcome) :
                /\ oracle_outcome' = outcome
                /\ oracle_result' = r
                /\ answers' = IF outcome = "not_asked" THEN answers
                              ELSE Append(answers, <<idx, r>>)
                /\ CASE r = "true" ->
                          /\ IF kept
                             THEN Accumulate(window_text, window_members,
                                             flushed, flushed_members)
                             ELSE Accumulate(<<>>, <<>>,
                                             Append(flushed, window_text),
                                             Append(flushed_members,
                                                    window_members))
                          /\ window_paragraphs' = <<paragraph>>
                          /\ idx' = idx + 1
                          /\ pc' = pc
                     [] r = "false" ->
                          /\ Accumulate(current_chunk, cur_members, chunks,
                                        members)
                          /\ window_paragraphs' = <<paragraph>>
                          /\ idx' = idx + 1
                          /\ pc' = pc
                     [] r = "raise" ->
                          /\ pc' = "windowed_raised"
                          /\ window_paragraphs' = window
                          /\ UNCHANGED <<idx, chunks, current_chunk, members,
                                         cur_members>>
    /\ UNCHANGED windowedFrame

\* lines 210-225: the remaining window and the accumulator after the loop
FinishWindowed ==
    /\ pc = "windowed_loop"
    /\ idx > Len(paragraphs)
    /\ LET remaining_text == JoinWindow(window_paragraphs)
           remaining_members ==
               WindowMembers(window_paragraphs, Len(paragraphs))
           joined == /\ window_paragraphs # <<>>
                     /\ current_chunk # <<>>
                     /\ Len(current_chunk \o ParagraphBreak \o remaining_text)
                            <= max_chunk_size
           split == window_paragraphs # <<>> /\ ~joined
           final == IF joined
                    THEN current_chunk \o ParagraphBreak \o remaining_text
                    ELSE current_chunk
           final_members == IF joined THEN cur_members \o remaining_members
                                      ELSE cur_members
           first == IF split /\ current_chunk # <<>>
                    THEN <<Strip(current_chunk)>> ELSE <<>>
           first_members == IF split /\ current_chunk # <<>>
                            THEN <<cur_members>> ELSE <<>>
           second == IF split /\ remaining_text # <<>>
                     THEN <<remaining_text>> ELSE <<>>
           second_members == IF split /\ remaining_text # <<>>
                             THEN <<remaining_members>> ELSE <<>>
           last == IF final # <<>> THEN <<Strip(final)>> ELSE <<>>
           last_members == IF final # <<>> THEN <<final_members>> ELSE <<>>
       IN  /\ chunks' = chunks \o first \o second \o last
           /\ members' = members \o first_members \o second_members
                             \o last_members
           /\ current_chunk' = final
           /\ cur_members' = final_members
    /\ pc' = "windowed_returned"
    /\ UNCHANGED <<windowedFrame, idx, window_paragraphs, oracle_outcome,
                   oracle_result, answers>>

NextWindowed ==
    \/ StartWindowed
    \/ FillWindow
    \/ JudgeWindow
    \/ FinishWindowed

SpecWindowed == InitWindowed /\ [][NextWindowed]_vars

(***************************************************************************)
(* Properties.                                                             *)
(***************************************************************************)
\* the run is one of progressive_chunk
InV2 == pc \in {"progressive_chunk", "v2_loop", "v2_returned", "v2_raised"}

\* length of the atomic unit with index i: the sentence text, or the paragraph
UnitLen(i) ==
    IF InV2 THEN Len(paragraphs[i]) ELSE Len(sentences_with_newlines[i][1])

\* the sentences with the given indices, joined as the assembler joins them
JoinMembers(ms) ==
    Concat([k \in 1..Len(ms) |->
              sentences_with_newlines[ms[k]][1]
                  \o sentences_with_newlines[ms[k]][2]])

\* C1: the sentences returned by split_sentences, text + trailing whitespace
\* joined in order, are the document itself.
C1_SegmentRoundTrip ==
    pc = "segmented" => JoinSentences(sentences_with_newlines) = text

\* C2: restore_abbreviations(protect_abbreviations(x)) = x for every text x
\* and every abbreviation set.
C2_RestoreAfterProtect ==
    pc = "restored" => restored = text

\* C3: protect_abbreviations(protect_abbreviations(x)) =
\* protect_abbreviations(x): a second pass inserts no further sentinel.
C3_ProtectIdempotent ==
    pc = "reprotected" => reprotected = protected

\* C4: an emitted chunk of more than one sentence is at most 1.2 *
\* max_chunk_size long, and a chunk of a single sentence is longer than
\* max_chunk_size only if that sentence alone is.
C4_SizeBound ==
    \A k \in 1..Len(chunks) :
        /\ Len(members[k]) > 1 => 10 * Len(chunks[k]) <= 12 * max_chunk_size
        /\ Len(members[k]) = 1 /\ Len(chunks[k]) > max_chunk_size
               => UnitLen(members[k][1]) > max_chunk_size

\* sentence_based_chunk has returned a chunk of several sentences that is
\* longer than max_chunk_size
C4_Witness ==
    /\ pc = "returned"
    /\ \E k \in 1..Len(chunks) :
           Len(members[k]) > 1 /\ Len(chunks[k]) > max_chunk_size

C6_EverySentenceOnce ==
    /\ pc = "loop" =>
          /\ Concat(members) \o cur_members = [i \in 1..(idx - 1) |-> i]
          /\ current_chunk = JoinMembers(cur_members)
    /\ pc = "returned" =>
          /\ Concat(members) =
                 [i \in 1..Len(sentences_with_newlines) |-> i]
          /\ Len(chunks) = Len(members)
          /\ \A k \in 1..Len(chunks) :
                 chunks[k] = RStrip(JoinMembers(members[k]))
          /\ current_chunk # <<>> =>
                 chunks[Len(chunks)] = RStrip(current_chunk)

\* sentence_based_chunk has returned several chunks, the last of them being
\* the accumulator left after the last sentence
C6_Witness ==
    /\ pc = "returned"
    /\ Len(chunks) >= 2
    /\ Len(sentences_with_newlines) >= 3
    /\ current_chunk # <<>>

\* C7: the chunks returned by sentence_based_chunk, concatenated in order,
\* are the document.
C7_ChunksReconstruct ==
    pc = "returned" => Concat(chunks) = text

\* C8: for a non-empty document sentence_based_chunk returns, whatever the
\* oracle does, and the list it returns is not empty.
C8_ReturnsChunks ==
    text # <<>> =>
        /\ pc # "raised"
        /\ pc = "returned" => chunks # <<>>

\* C9: an oracle call that fails or whose response cannot be parsed counts as
\* 'same topic', and neither sentence_based_chunk nor chunk_file fails on it.
C9_FailureIsSameTopic ==
    oracle_outcome \in OracleFailures =>
        /\ oracle_result = "false"
        /\ pc # "raised"
        /\ (pc = "exit" /\ chunk_file_result = "False") => oracle_result # "raise"

\* C10 as stated: a failed oracle call reaches the caller as an outcome other
\* than the answer 'same topic'.
C10_FailureDistinguishable ==
    oracle_outcome \in OracleFailures => oracle_result # "false"

\* C10 amended: a transport failure, a timeout or an HTTP error status reaches
\* the caller of is_topic_shift / is_topic_boundary as the return value False,
\* the value of a genuine 'same topic'; only a response that cannot be parsed
\* can reach it as an exception.
C10_TransportFailureReturnsFalse ==
    /\ oracle_outcome \in {"connection_error", "timeout", "http_error"}
           => oracle_result = "false"
    /\ oracle_result = "raise" => oracle_outcome \in {"not_json", "no_content"}

\* the oracle timed out and the sentence was appended as on 'same topic'
C10_Witness ==
    /\ oracle_outcome = "timeout"
    /\ oracle_result = "false"
    /\ Len(cur_members) >= 2

\* C11: sentence_based_chunk asks the oracle only when the accumulator holds
\* at least two sentences (one or more merged into the one that started it),
\* never when it holds a single sentence.
C11_OracleAfterMerge ==
    (~InV2 /\ oracle_outcome # "none") => asked_members >= 2

\* C12: both spans of every oracle call of sentence_based_chunk are non-empty,
\* the accumulated chunk and the candidate sentence, a candidate that comes
\* from a blank line included.
C12_OracleSpansNonEmpty ==
    (~InV2 /\ oracle_outcome # "none") =>
        asked_chunk # <<>> /\ asked_sentence # <<>>

\* C13: an engine whose min_chunk_size is greater than its max_chunk_size, or
\* whose max_chunk_size is not positive, is rejected before it processes any
\* sentence or paragraph: the loop handles no unit and no chunk is emitted.
C13_BadConfigRejected ==
    (min_chunk_size > max_chunk_size \/ max_chunk_size <= 0) =>
        idx = 1 /\ chunks = <<>>

\* the vocabulary file cannot be loaded: it cannot be opened or parsed, or
\* what it holds is not a mapping of lists
NotLoadable(file) ==
    \/ file.kind \in LoadFailures
    \/ \E k \in 1..Len(file.values) : file.values[k].kind # "list"

\* C14: when the vocabulary file cannot be loaded (missing, unreadable, not a
\* mapping of lists) the engine is constructed with an empty abbreviation set,
\* protect_abbreviations protects exactly the matches of the three fallback
\* patterns and is_abbreviation accepts every token matching one of them.
C14_FallbackOnLoadFailure ==
    (pc \in {"guard", "protected"} /\ NotLoadable(abbreviation_file)) =>
        /\ abbreviation_set = {}
        /\ pc = "protected" => protected = ProtectPattern(text)
        /\ \A token \in LoadDocs :
               MatchesPattern(token) => is_abbreviation(token, abbreviation_set)

\* the answer for j Japanese characters among j + l letters
LanguageByShare(j, l) ==
    IF j + l = 0 THEN "en"
    ELSE IF 10 * j >= 3 * (j + l) THEN "ja" ELSE "en"

\* C15 as stated: with j the Japanese characters (hiragana, katakana, CJK
\* ideographs) and l the Latin letters of the text, detect_language returns
\* 'en' when j + l = 0, 'ja' when 10 * j >= 3 * (j + l) and 'en' otherwise,
\* and the shared utility function returns the same.
C15_LanguageByShare ==
    pc = "detected" =>
        /\ language =
               LanguageByShare(
                   CountIn(text, Japanese \cup {"CJK_EXT_A"}),
                   CountIn(text, Upper \cup Lower \cup {"LATIN_ACCENTED"}))
        /\ utils_language = language

\* C15 amended: with j the characters in U+3040-U+30FF or U+4E00-U+9FAF and
\* l the letters a-z and A-Z, every other character counting as neither,
\* detect_language returns 'en' when j + l = 0, 'ja' when
\* 10 * j >= 3 * (j + l) and 'en' otherwise, and the shared utility function
\* returns the same.
C15_LanguageByCountedShare ==
    pc = "detected" =>
        /\ language =
               LanguageByShare(CountIn(text, Japanese),
                               CountIn(text, Upper \cup Lower))
        /\ utils_language = language

\* a text of three Japanese characters and seven letters was judged 'ja'
C15_Witness ==
    /\ pc = "detected"
    /\ CountIn(text, Japanese) = 3
    /\ CountIn(text, Upper \cup Lower) = 7
    /\ language = "ja"

\* every oracle call so far was answered 'same topic'
AllAnswersFalse == \A k \in 1..Len(answers) : answers[k][2] = "false"

\* C16: on 'Dr. Smith went home. He was tired.' with min_chunk_size 5 and
\* max_chunk_size 1000 split_sentences yields the two sentences
\* 'Dr. Smith went home.' and ' He was tired.', and with an oracle that
\* always answers false sentence_based_chunk returns one chunk that holds
\* both sentences verbatim.
C16_DrSmithTwoSentences ==
    (text = DrSmith /\ max_chunk_size = 1000 /\ min_chunk_size = 5) =>
        /\ pc \in {"loop", "returned"} =>
               [k \in 1..Len(sentences_with_newlines) |->
                    sentences_with_newlines[k][1]]
                   = <<SubSeq(DrSmith, 1, 20), SubSeq(DrSmith, 21, 34)>>
        /\ (pc = "returned" /\ AllAnswersFalse) => chunks = <<DrSmith>>

\* the units at the boundary of two paragraphs: for sentence_based_chunk the
\* empty line and the sentence after it, for progressive_chunk every
\* paragraph after the first
BoundaryUnits ==
    IF InV2 THEN 2..Len(paragraphs)
    ELSE {i \in 1..Len(sentences_with_newlines) :
             \/ sentences_with_newlines[i][1] = <<>>
             \/ i > 1 /\ sentences_with_newlines[i - 1][1] = <<>>}

\* the oracle answered true at the paragraph boundary and false elsewhere
TrueAtBoundaryOnly ==
    \A k \in 1..Len(answers) :
        answers[k][2] =
            IF answers[k][1] \in BoundaryUnits THEN "true" ELSE "false"

\* C17: on two paragraphs of 600 characters with max_chunk_size 1000 and
\* min_chunk_size 500 and an oracle that answers true at the paragraph
\* boundary, each assembler returns exactly two chunks, the first paragraph
\* and the second paragraph (white space at the ends of a chunk aside).
C17_SplitAtParagraphBoundary ==
    \A pair \in ParagraphPairs :
        (/\ text = TwoParagraphs(pair)
         /\ max_chunk_size = 1000
         /\ min_chunk_size = 500
         /\ pc \in {"returned", "v2_returned"}
         /\ TrueAtBoundaryOnly)
        => /\ Len(chunks) = 2
           /\ Strip(chunks[1]) = pair[1]
           /\ Strip(chunks[2]) = pair[2]

\* the sentence with index i is longer than max_chunk_size
OversizeSentence(i) == Len(sentences_with_newlines[i][1]) > max_chunk_size

\* C18: a sentence longer than max_chunk_size is emitted undivided as a chunk
\* of its own; when the loop has just handled it, what the accumulator held
\* has been flushed before it and the accumulator is empty.  A document that
\* is one sentence of 5000 characters, with max_chunk_size 1000, comes back as
\* exactly one chunk, the sentence itself.
C18_OversizeSentenceAlone ==
    /\ pc \in {"loop", "returned"} =>
          \A i \in 1..(idx - 1) :
              OversizeSentence(i) =>
                  \E k \in 1..Len(chunks) :
                      /\ members[k] = <<i>>
                      /\ chunks[k] = sentences_with_newlines[i][1]
    /\ (pc = "loop" /\ idx > 1 /\ OversizeSentence(idx - 1)) =>
          /\ current_chunk = <<>>
          /\ cur_members = <<>>
          /\ Concat(members) = [i \in 1..(idx - 1) |-> i]
          /\ members[Len(members)] = <<idx - 1>>
    /\ (pc = "returned" /\ text \in LongSentences /\ max_chunk_size = 1000) =>
          chunks = <<text>> /\ Len(chunks[1]) = 5000

\* an oversize sentence arrived while the accumulator held a sentence: the
\* accumulator was flushed as the chunk before that of the sentence
C18_Witness ==
    /\ pc = "loop"
    /\ idx > 2
    /\ OversizeSentence(idx - 1)
    /\ Len(chunks) >= 2
    /\ members[Len(members) - 1] = <<idx - 2>>
    /\ chunks[Len(chunks) - 1] # <<>>
    /\ current_chunk = <<>>

\* t occurs in s
Occurs(t, s) == \E i \in 1..(Len(s) + 1) : StartsAt(s, t, i)

\* s without its white space
Squeeze(s) == SelectSeq(s, LAMBDA c : c \notin Whitespace)

\* the abbreviation tokens of the text as pairs <<first, last>> of indices:
\* the occurrences of the members of the set, and the words that match one of
\* the three patterns together with their period
AbbreviationTokens ==
    {occ \in (1..Len(text)) \X (1..Len(text)) :
        /\ occ[1] <= occ[2]
        /\ \/ SubSeq(text, occ[1], occ[2]) \in abbreviation_set
           \/ /\ PatternDotAt(text, occ[2])
              /\ occ[1] = WordStart(text, occ[2] - 1)}

\* more text follows index d on its line
LineGoesOn(d) ==
    \E j \in (d + 1)..Len(text) :
        /\ text[j] \notin Whitespace
        /\ \A m \in (d + 1)..j : text[m] # "\n"

\* a sentence of the result ends with the character at index d of the text
\* although the line goes on: white space aside, the sentences up to it are
\* the text up to d
BoundaryAt(d) ==
    /\ LineGoesOn(d)
    /\ \E k \in 1..(Len(sentences_with_newlines) - 1) :
           Squeeze(JoinSentences(SubSeq(sentences_with_newlines, 1, k)))
               = Squeeze(SubSeq(text, 1, d))

\* C19: for every abbreviation token of the text, a member of the set or a
\* word matching one of the three patterns with its period, no sentence of
\* split_sentences ends at a period of the token inside a line, and the token
\* occurs in the concatenated sentences.
C19_AbbreviationsKept ==
    pc = "segmented" =>
        \A occ \in AbbreviationTokens :
            /\ Occurs(SubSeq(text, occ[1], occ[2]),
                      JoinSentences(sentences_with_newlines))
            /\ \A d \in occ[1]..occ[2] : text[d] = "." => ~BoundaryAt(d)

\* C20: when the document cannot be decoded chunk_file returns False and has
\* written no chunk file and no metadata file; and whenever an output file
\* has been written, the document was read and sentence_based_chunk had gone
\* through all its sentences and returned the chunks the files are written
\* from.
C20_NoOutputBeforeChunked ==
    /\ file_state = "undecodable" =>
          /\ written = <<>>
          /\ pc = "exit" => chunk_file_result = "False"
    /\ written # <<>> =>
          /\ file_state = "readable"
          /\ pc = "exit"
          /\ idx > Len(sentences_with_newlines)
          /\ \A k \in 1..Len(written) :
                 written[k] = IF k <= Len(chunks)
                              THEN <<"chunk", k>>
                              ELSE <<"metadata", Len(chunks)>>

\* chunk_file has returned False on a document that cannot be decoded
C20_Witness ==
    /\ file_state = "undecodable"
    /\ pc = "exit"
    /\ chunk_file_result = "False"
    /\ written = <<>>

\* the seeds the next chunk may start with after a cut that flushed chunk:
\* its last n characters (all of it when it is shorter), or what follows a
\* paragraph boundary of these when they hold one
SeedsOf(chunk, n) ==
    LET tail == IF Len(chunk) > n THEN LastChars(chunk, n) ELSE chunk
    IN  IF BreaksIn(tail) = {} THEN {tail}
        ELSE {SubSeq(tail, b + 2, Len(tail)) : b \in BreaksIn(tail)}

\* C21: after a cut by size that flushed a chunk, with overlap > 0, the new
\* accumulator of simple_chunk and of chunk_text is a seed, '\n\n' and the
\* paragraph that caused the cut; the seed is the last overlap characters of
\* the flushed chunk, from after a paragraph boundary when they hold one, and
\* it is at most overlap characters long.
C21_SeededAfterCut ==
    (/\ pc \in {"simple_loop", "chunk_text_loop"}
     /\ overlap > 0
     /\ cut_at # 0
     /\ idx = cut_at + 1)
    => \E seed \in SeedsOf(chunks[Len(chunks)], overlap) :
          /\ current_chunk = seed \o ParagraphBreak \o paragraphs[cut_at]
          /\ Len(seed) <= overlap

\* the unit the for loop is at, as the assembler adds it: the sentence with
\* its trailing line breaks, or the paragraph
Unit == IF InV2 THEN paragraph ELSE sentence_with_newline

\* what the assembler puts between the accumulator and the unit
Separator == IF InV2 THEN ParagraphBreak ELSE <<>>

\* the step flushes the accumulator and starts the new one with the unit
FlushedAndStarted ==
    /\ chunks' = Append(chunks, IF InV2 THEN Strip(current_chunk)
                                        ELSE RStrip(current_chunk))
    /\ current_chunk' = Unit
    /\ idx' = idx + 1

\* the step appends the unit to the accumulator
AppendedUnit ==
    /\ chunks' = chunks
    /\ current_chunk' = current_chunk \o Separator \o Unit
    /\ idx' = idx + 1

\* the outcomes C22 allows for a unit that would exceed
OutcomeByRule ==
    /\ IF Len(current_chunk) >= min_chunk_size THEN FlushedAndStarted
       ELSE IF 10 * Len(current_chunk \o Separator \o Unit)
                   <= 12 * max_chunk_size
            THEN AppendedUnit
            ELSE FlushedAndStarted
    /\ UNCHANGED oracleVars

\* the sentence text or the paragraph is at most max_chunk_size long and
\* adding the unit to the accumulator would give more than max_chunk_size
WouldExceedBySentence ==
    \/ /\ AtSentence
       /\ Len(sentence) <= max_chunk_size
       /\ combined_size > max_chunk_size
    \/ /\ AtParagraph
       /\ Len(paragraph) <= max_chunk_size
       /\ combined_size_v2 > max_chunk_size

\* C22: when a sentence that is not longer than max_chunk_size
\* would push the accumulator past max_chunk_size, the step flushes the
\* accumulator and starts the new one with the sentence if the accumulator is
\* at least min_chunk_size long; otherwise it appends the sentence iff the
\* combined length is at most 1.2 * max_chunk_size, and else flushes and
\* starts the new one.  The oracle is not consulted.
C22_WouldExceedOutcomeBySentence ==
    [][WouldExceedBySentence => OutcomeByRule]_vars

\* the unit fits: with it the accumulator is at most max_chunk_size long
Fits ==
    \/ AtSentence /\ combined_size <= max_chunk_size
    \/ AtParagraph /\ combined_size_v2 <= max_chunk_size

\* the step calls the oracle
Consulted == answers' # answers

\* C23: in a step at a unit that fits within max_chunk_size the oracle is
\* called at most once, for this unit, never a second time for the same unit
\* (a failed call is not repeated), and only if the accumulator is non-empty
\* and at least min_chunk_size long; on the answer true the accumulator is
\* flushed and the unit starts the new one, on every other outcome of the
\* call the unit is appended; with an empty accumulator or one under
\* min_chunk_size the unit is appended and the oracle is not called.
C23_OracleWithinBudget ==
    [][Fits =>
         /\ Consulted =>
               /\ answers' = Append(answers, <<idx, oracle_result'>>)
               /\ \A k \in 1..Len(answers) : answers[k][1] # idx
               /\ current_chunk # <<>>
               /\ Len(current_chunk) >= min_chunk_size
               /\ IF oracle_result' = "true" THEN FlushedAndStarted
                                            ELSE AppendedUnit
         /\ (current_chunk = <<>> \/ Len(current_chunk) < min_chunk_size) =>
               /\ ~Consulted
               /\ chunks' = chunks
               /\ current_chunk' = IF current_chunk = <<>> THEN Unit
                                   ELSE current_chunk \o Separator \o Unit
               /\ idx' = idx + 1]_vars

\* C24: where a sentence of split_sentences ends inside a line, the character
\* it ends with is one of . ! ? and their full-width forms, and the character
\* after it is neither a digit nor a Latin letter; no sentence ends at a
\* terminator that is immediately followed by a digit or a Latin letter.
C24_BoundaryOnlyAtTerminator ==
    pc = "segmented" =>
        \A d \in 1..Len(text) :
            (text[d] \notin Whitespace /\ BoundaryAt(d)) =>
                /\ text[d] \in Terminator
                /\ d < Len(text) => text[d + 1] \notin AlnumAscii

\* an abbreviation remnant: at most ShortAbbrLen characters, the last a period
IsRemnant(s) == s # <<>> /\ Len(s) <= ShortAbbrLen /\ s[Len(s)] = "."

\* C25: no sentence returned by split_sentences is an abbreviation remnant, a
\* text of at most 3 characters that ends in a period, wherever the fragment
\* stands in the document.
C25_NoLoneRemnant ==
    pc = "segmented" =>
        \A k \in 1..Len(sentences_with_newlines) :
            ~IsRemnant(sentences_with_newlines[k][1])

RECURSIVE Embeds(_, _, _, _)
\* a from index i on can be read off b from index j on, in order, characters
\* of b being skipped
Embeds(a, i, b, j) ==
    IF i > Len(a) THEN TRUE
    ELSE IF j > Len(b) THEN FALSE
         ELSE IF a[i] = b[j] THEN Embeds(a, i + 1, b, j + 1)
                             ELSE Embeds(a, i, b, j + 1)

\* C26: a fragment that split_sentences appends to the previous sentence is
\* in the output once and is not prefixed to the next fragment of its line as
\* well: white space aside, the returned sentences in order hold no text
\* beyond that of the document, each character of it at most once.
C26_MergedFragmentOnce ==
    pc = "segmented" =>
        Embeds(Squeeze(JoinSentences(sentences_with_newlines)), 1,
               Squeeze(text), 1)

\* C27: a fragment of at most 3 characters ending in a period that
\* split_sentences holds back reaches the output, also when it is the last
\* fragment of its line: white space aside, the text of the document can be
\* read off the returned sentences in order, nothing of it is missing.
C27_HeldBackReachesOutput ==
    pc = "segmented" =>
        Embeds(Squeeze(text), 1,
               Squeeze(JoinSentences(sentences_with_newlines)), 1)

\* C28: every chunk emitted by sentence_based_chunk is non-empty once its
\* trailing white space is stripped; no chunk is made of the sentences of
\* blank lines only.
C28_NoBlankChunk ==
    ~InV2 => \A k \in 1..Len(chunks) : RStrip(chunks[k]) # <<>>

\* C29: progressive_chunk of ProgressiveChunkerV2 appends no empty chunk: the
\* accumulator it flushes when a paragraph would exceed max_chunk_size is not
\* empty, whatever the length of the first paragraph and also with
\* min_chunk_size = 0.
C29_NoEmptyChunkV2 ==
    InV2 => \A k \in 1..Len(chunks) : chunks[k] # <<>>


\* how many times paragraph i is held by the chunks with the given members
TimesEmitted(i, ms) ==
    Cardinality({kj \in (1..Len(ms)) \X (1..Len(paragraphs)) :
                    /\ kj[2] <= Len(ms[kj[1]])
                    /\ ms[kj[1]][kj[2]] = i})

\* C30: when progressive_chunk of ProgressiveChunker has returned, each
\* paragraph returned by split_paragraphs is in the emitted chunks exactly
\* once, for every document, window size and sequence of oracle answers.
C30_EveryParagraphOnce ==
    pc = "windowed_returned" =>
        \A i \in 1..Len(paragraphs) : TimesEmitted(i, members) = 1

====
